---- MODULE Spec2Model ----
(***************************************************************************)
(* Model of the configuration loading of exam-app.                         *)
(*                                                                         *)
(*   exam_app/config/setting.py   read_json_file: open + json.load, the    *)
(*                                schema comparison with DEFAULT_SETTINGS, *)
(*                                the FileNotFoundError fallback that      *)
(*                                writes the defaults                      *)
(*   exam_app/config/__init__.py  module level SETTINGS (computed once,    *)
(*                                when the module is imported) and         *)
(*                                load_settings()                          *)
(*   exam_app/__init__.py         the entry point: load, print, sys.exit() *)
(*                                                                         *)
(* A JSON value is a record [type, s, n]: type is the name of the Python   *)
(* type json.load gives it, s its text (strings), n its number.  A parsed  *)
(* JSON object is a sequence of [key, value] pairs with distinct keys, in  *)
(* document order (a Python dict keeps insertion order).                   *)
(***************************************************************************)
EXTENDS Integers, Sequences, FiniteSets, TLC

\* ------------------------------------------------------------------ bounds
\* Number of callers that run the entry sequence (import, load_settings).
NumCallers == 2
\* Calls of load_settings() one caller makes.
MaxCalls == 2
\* Changes the environment makes to the file between loads (Spec).
MaxEnvChanges == 1
\* Edits applied to the JSON object in the file before a load (SpecV).
MaxEdits == 2

Callers == 1..NumCallers
\* The caller that is the process entry point (exam_app/__init__.py).
Main == 1

\* ------------------------------------------------------------ JSON values
StrV(s) == [type |-> "str", s |-> s, n |-> 0]
IntV(n) == [type |-> "int", s |-> "", n |-> n]
BoolV(b) == [type |-> "bool", s |-> "", n |-> b]
FloatV(n) == [type |-> "float", s |-> "", n |-> n]
NullV == [type |-> "NoneType", s |-> "", n |-> 0]

\* type(value)
TypeOf(v) == v.type

Pair(k, v) == [key |-> k, value |-> v]

\* If there is no JSON file for the settings, the following settings are used.
DEFAULT_SETTINGS ==
    << Pair("file_name", StrV("question.csv")),
       Pair("font_name", StrV("")),
       Pair("font_size", IntV(18)),
       Pair("width", IntV(640)),
       Pair("height", IntV(480)),
       Pair("padding", IntV(8)) >>

\* dict.keys() as a set
Keys(doc) == {doc[i].key : i \in 1..Len(doc)}

\* dict.get(key): the value stored under key, None when there is none
Get(doc, k) ==
    IF k \in Keys(doc)
    THEN (CHOOSE p \in {doc[i] : i \in 1..Len(doc)} : p.key = k).value
    ELSE NullV

\* -------------------------------------------------------------- the file
\* The file as open()/json.load see it: exists (else FileNotFoundError),
\* readable (else another OSError or a UnicodeDecodeError on reading), and
\* what json.load makes of the text: "malformed" (JSONDecodeError),
\* "nonmapping" (a JSON value that is no object), "mapping" (an object).
NoFile == [exists |-> FALSE, readable |-> FALSE, kind |-> "none", doc |-> <<>>]
Unreadable == [exists |-> TRUE, readable |-> FALSE, kind |-> "none", doc |-> <<>>]
Malformed == [exists |-> TRUE, readable |-> TRUE, kind |-> "malformed", doc |-> <<>>]
NonMapping == [exists |-> TRUE, readable |-> TRUE, kind |-> "nonmapping", doc |-> <<>>]
Mapping(d) == [exists |-> TRUE, readable |-> TRUE, kind |-> "mapping", doc |-> d]

\* Results of read_json_file: None or a dict.  Unset is a name not bound yet.
Unset == [tag |-> "unset", doc |-> <<>>]
None == [tag |-> "None", doc |-> <<>>]
Dict(d) == [tag |-> "dict", doc |-> d]
EmptyDict == Dict(<<>>)

\* Diagnostics printed by read_json_file.
NoReport == [kind |-> "none", keys |-> {}, key |-> "", value_type |-> "", default_type |-> ""]
JSONDecodeReport == [kind |-> "JSONDecodeError", keys |-> {}, key |-> "", value_type |-> "", default_type |-> ""]

RequiredKeysError(keys) ==
    [kind |-> "RequiredKeysError", keys |-> keys, key |-> "", value_type |-> "", default_type |-> ""]

UnwantedKeysError(keys) ==
    [kind |-> "UnwantedKeysError", keys |-> keys, key |-> "", value_type |-> "", default_type |-> ""]

InvalidValueTypeError(key, value_type, default_type) ==
    [kind |-> "InvalidValueTypeError", keys |-> {}, key |-> key,
     value_type |-> value_type, default_type |-> default_type]

\* ------------------------------------------------- the schema comparison
\* default_keys.difference(json_keys)
required_keys(json_keys, default_keys) == default_keys \ json_keys

\* Mutant: the difference taken the wrong way round.
unwanted_keys_swapped(json_keys, default_keys) == default_keys \ json_keys

\* json_keys.difference(default_keys)
unwanted_keys(json_keys, default_keys) == json_keys \ default_keys

\* Mutant: isinstance(value, default_type) instead of the identity of the
\* types (bool is a subclass of int).
SameType_isinstance(value_type, default_type) ==
    value_type = default_type \/ (value_type = "bool" /\ default_type = "int")

\* not (value_type is not default_type): the two type objects are the same
SameType(value_type, default_type) == value_type = default_type

\* The positions of the document whose value fails the test of the for loop.
MismatchedAt(doc) ==
    {i \in 1..Len(doc) :
        ~SameType(TypeOf(doc[i].value), TypeOf(Get(DEFAULT_SETTINGS, doc[i].key)))}

Min(S) == CHOOSE x \in S : \A y \in S : x <= y

\* Mutant: the unwanted keys are looked at before the required keys.
SchemaCheck_UnwantedFirst(doc) ==
    LET json_keys == Keys(doc)
        default_keys == Keys(DEFAULT_SETTINGS)
    IN  IF json_keys = default_keys
        THEN IF MismatchedAt(doc) = {}
             THEN NoReport
             ELSE LET i == Min(MismatchedAt(doc))
                  IN  InvalidValueTypeError(doc[i].key, TypeOf(doc[i].value),
                                            TypeOf(Get(DEFAULT_SETTINGS, doc[i].key)))
        ELSE IF unwanted_keys(json_keys, default_keys) # {}
             THEN UnwantedKeysError(unwanted_keys(json_keys, default_keys))
             ELSE IF required_keys(json_keys, default_keys) # {}
                  THEN RequiredKeysError(required_keys(json_keys, default_keys))
                  ELSE NoReport

\* The exception the schema comparison raises for a parsed object, NoReport
\* when it raises none.
SchemaCheck(doc) ==
    LET json_keys == Keys(doc)
        default_keys == Keys(DEFAULT_SETTINGS)
    IN  IF json_keys = default_keys
        THEN IF MismatchedAt(doc) = {}
             THEN NoReport
             ELSE LET i == Min(MismatchedAt(doc))
                  IN  InvalidValueTypeError(doc[i].key, TypeOf(doc[i].value),
                                            TypeOf(Get(DEFAULT_SETTINGS, doc[i].key)))
        ELSE IF required_keys(json_keys, default_keys) # {}
             THEN RequiredKeysError(required_keys(json_keys, default_keys))
             ELSE IF unwanted_keys(json_keys, default_keys) # {}
                  THEN UnwantedKeysError(unwanted_keys(json_keys, default_keys))
                  ELSE NoReport

\* ------------------------------------------------------------------ state
VARIABLES
    file,           \* the settings file on disk
    dirWritable,    \* whether a file can be created in its directory
    cfgModule,      \* exam_app.config: "unloaded", "initializing", "loaded"
    importLock,     \* the caller that holds the import lock of the module, 0: free
    SETTINGS,       \* the module level SETTINGS of exam_app.config
    pc,             \* where each caller is
    json_settings,  \* read_json_file's local json_settings, per caller
    settings,       \* read_json_file's local settings (its return value), per caller
    exc,            \* the exception that left read_json_file, "" when none
    outcome,        \* what load_settings() returned to each caller, as a set
    calls,          \* the calls of load_settings() each caller has made
    printed,        \* the lines printed by the config module and the entry point
    exitStatus,     \* the exit status of the process, -1 while it runs
    reported,       \* the diagnostic read_json_file printed last
    reads,          \* how often the file was opened for reading
    writes,         \* how often the defaults were written
    validations,    \* how often the schema comparison ran
    before,         \* the file when a caller's read_json_file began
    envChanges,     \* the changes the environment has made to the file
    edits,          \* the edits made to the JSON object before the load
    fileAtLoad,     \* history: the file when SETTINGS was assigned
    staleCall       \* history: load_settings() was called on a file changed since

vars == << file, dirWritable, cfgModule, importLock, SETTINGS, pc, json_settings,
           settings, exc, outcome, calls, printed, exitStatus, reported,
           reads, writes, validations, before, envChanges, edits,
           fileAtLoad, staleCall >>

\* The variables of the config module and of the entry point.
moduleVars == << cfgModule, importLock, SETTINGS, outcome, calls, printed, exitStatus,
                fileAtLoad, staleCall >>

\* ------------------------------------------------------ read_json_file
\* Mutant: JSONDecodeError is handled like FileNotFoundError.
OpenAndLoad_DecodeErrorWrites(t) ==
    /\ pc[t] = "read"
    /\ reads' = reads + 1
    /\ IF ~file.exists \/ (file.readable /\ file.kind = "malformed")
       THEN /\ pc' = [pc EXCEPT ![t] = "write"]
            /\ UNCHANGED << json_settings, exc, reported >>
       ELSE IF ~file.readable
       THEN /\ pc' = [pc EXCEPT ![t] = "exc"]
            /\ exc' = [exc EXCEPT ![t] = "OSError"]
            /\ UNCHANGED << json_settings, reported >>
       ELSE /\ pc' = [pc EXCEPT ![t] = "validate"]
            /\ json_settings' = [json_settings EXCEPT ![t] = file]
            /\ UNCHANGED << exc, reported >>
    /\ UNCHANGED << file, dirWritable, settings, writes, validations, before,
                    envChanges, edits, moduleVars >>

\* with Path.open(file, encoding="UTF-8") as f: json_settings = json.load(f)
\* and the handlers of what it raises: FileNotFoundError goes on to write the
\* defaults, JSONDecodeError prints and leaves settings None, anything else
\* is not handled.
OpenAndLoad(t) ==
    /\ pc[t] = "read"
    /\ reads' = reads + 1
    /\ IF ~file.exists
       THEN /\ pc' = [pc EXCEPT ![t] = "write"]
            /\ UNCHANGED << json_settings, exc, reported >>
       ELSE IF ~file.readable
       THEN /\ pc' = [pc EXCEPT ![t] = "exc"]
            /\ exc' = [exc EXCEPT ![t] = "OSError"]
            /\ UNCHANGED << json_settings, reported >>
       ELSE IF file.kind = "malformed"
       THEN /\ pc' = [pc EXCEPT ![t] = "ret"]
            /\ reported' = JSONDecodeReport
            /\ UNCHANGED << json_settings, exc >>
       ELSE /\ pc' = [pc EXCEPT ![t] = "validate"]
            /\ json_settings' = [json_settings EXCEPT ![t] = file]
            /\ UNCHANGED << exc, reported >>
    /\ UNCHANGED << file, dirWritable, settings, writes, validations, before,
                    envChanges, edits, moduleVars >>

\* The comparison with the schema of DEFAULT_SETTINGS, then
\* settings = json_settings; a JsonSchemaError is printed and leaves settings
\* None; json_settings.keys() on a value that is no dict raises AttributeError,
\* which is not handled.
Validate(t) ==
    /\ pc[t] = "validate"
    /\ validations' = validations + 1
    /\ IF json_settings[t].kind # "mapping"
       THEN /\ pc' = [pc EXCEPT ![t] = "exc"]
            /\ exc' = [exc EXCEPT ![t] = "AttributeError"]
            /\ UNCHANGED << settings, reported >>
       ELSE /\ pc' = [pc EXCEPT ![t] = "ret"]
            /\ IF SchemaCheck(json_settings[t].doc) = NoReport
               THEN /\ settings' = [settings EXCEPT ![t] = Dict(json_settings[t].doc)]
                    /\ UNCHANGED reported
               ELSE /\ reported' = SchemaCheck(json_settings[t].doc)
                    /\ UNCHANGED settings
            /\ UNCHANGED exc
    /\ UNCHANGED << file, dirWritable, json_settings, reads, writes, before,
                    envChanges, edits, moduleVars >>

\* Mutant: the defaults are returned but never written.
WriteDefaults_NoDump(t) ==
    /\ pc[t] = "write"
    /\ settings' = [settings EXCEPT ![t] = Dict(DEFAULT_SETTINGS)]
    /\ pc' = [pc EXCEPT ![t] = "ret"]
    /\ UNCHANGED << file, writes, exc, dirWritable, json_settings, reported, reads,
                    validations, before, envChanges, edits, moduleVars >>

\* except FileNotFoundError: open(file, "w"), json.dump(DEFAULT_SETTINGS, f,
\* indent=4), settings = DEFAULT_SETTINGS.  The open raises an OSError, not
\* handled, when the file cannot be created.  The file is modelled by the JSON
\* value its text denotes, so the dump leaves the object DEFAULT_SETTINGS.
WriteDefaults(t) ==
    /\ pc[t] = "write"
    /\ IF dirWritable
       THEN /\ file' = Mapping(DEFAULT_SETTINGS)
            /\ writes' = writes + 1
            /\ settings' = [settings EXCEPT ![t] = Dict(DEFAULT_SETTINGS)]
            /\ pc' = [pc EXCEPT ![t] = "ret"]
            /\ UNCHANGED exc
       ELSE /\ pc' = [pc EXCEPT ![t] = "exc"]
            /\ exc' = [exc EXCEPT ![t] = "OSError"]
            /\ UNCHANGED << file, writes, settings >>
    /\ UNCHANGED << dirWritable, json_settings, reported, reads, validations,
                    before, envChanges, edits, moduleVars >>

\* settings: SettingDict | None = None, on entry to read_json_file
EnterReadJsonFile(t) ==
    /\ settings' = [settings EXCEPT ![t] = None]
    /\ json_settings' = [json_settings EXCEPT ![t] = NoFile]
    /\ exc' = [exc EXCEPT ![t] = ""]
    /\ before' = [before EXCEPT ![t] = file]

\* if __name__ == "__main__": settings = read_json_file("setting.json")
RunSettingScript(t) ==
    /\ pc[t] = "script"
    /\ pc' = [pc EXCEPT ![t] = "read"]
    /\ EnterReadJsonFile(t)
    /\ UNCHANGED << file, dirWritable, reported, reads, writes, validations,
                    envChanges, edits, moduleVars >>

\* ------------------------------------------------ exam_app.config module
\* bool(d) of a dict or None
Truthy(d) == d.tag = "dict" /\ d.doc # <<>>

\* JsonFile(default_settings=DEFAULT_SETTINGS, dir_layer=1).settings: the
\* outcome of the load as a dict[str, int | str], the empty dict when no
\* settings are available.
JsonFile_settings(result) == IF result.tag = "dict" THEN result ELSE EmptyDict

\* from exam_app.config import load_settings.  The first import runs the
\* module body under the import lock of the module; an import of a loaded
\* module returns it; an import while another caller initializes the module
\* waits for the lock.
ImportConfig(t) ==
    /\ pc[t] = "start"
    /\ cfgModule # "loaded" => importLock = 0
    /\ IF cfgModule = "loaded"
       THEN /\ pc' = [pc EXCEPT ![t] = "imported"]
            /\ UNCHANGED << cfgModule, importLock, settings, json_settings, exc, before >>
       ELSE /\ pc' = [pc EXCEPT ![t] = "read"]
            /\ cfgModule' = "initializing"
            /\ importLock' = t
            /\ EnterReadJsonFile(t)
    /\ UNCHANGED << file, dirWritable, SETTINGS, outcome, calls, printed, exitStatus,
                    reported, reads, writes, validations, envChanges, edits,
                    fileAtLoad, staleCall >>

\* read_setting_file() returns and the module body ends:
\* SETTINGS = read_setting_file(); the module is loaded and the lock released.
read_setting_file(t) ==
    /\ pc[t] = "ret"
    /\ importLock = t
    /\ SETTINGS' = JsonFile_settings(settings[t])
    /\ printed' = IF Truthy(JsonFile_settings(settings[t]))
                  THEN printed \cup {"Successfully read setting file."}
                  ELSE printed
    /\ cfgModule' = "loaded"
    /\ importLock' = 0
    /\ pc' = [pc EXCEPT ![t] = "imported"]
    /\ fileAtLoad' = file
    /\ UNCHANGED << file, dirWritable, json_settings, settings, exc, outcome, calls,
                    exitStatus, reported, reads, writes, validations, before,
                    envChanges, edits, staleCall >>

\* An exception leaves read_json_file and the module body: the import fails,
\* the module is dropped again and the lock released; in the entry point the
\* exception ends the process with a traceback and status 1.
ImportFails(t) ==
    /\ pc[t] = "exc"
    /\ importLock = t
    /\ cfgModule' = "unloaded"
    /\ importLock' = 0
    /\ pc' = [pc EXCEPT ![t] = "raised"]
    /\ exitStatus' = IF t = Main THEN 1 ELSE exitStatus
    /\ UNCHANGED << file, dirWritable, SETTINGS, json_settings, settings, exc, outcome,
                    calls, printed, reported, reads, writes, validations, before,
                    envChanges, edits, fileAtLoad, staleCall >>

\* Mutant: load_settings() reads the file again instead of using SETTINGS.
load_settings_rereads(t) ==
    /\ pc[t] \in (IF t = Main THEN {"imported", "proceed"} ELSE {"imported", "called"})
    /\ calls[t] < MaxCalls
    /\ calls' = [calls EXCEPT ![t] = @ + 1]
    /\ reads' = reads + 1
    /\ outcome' = [outcome EXCEPT ![t] =
                      IF ~file.exists \/ (file.kind = "mapping" /\ SchemaCheck(file.doc) = NoReport)
                      THEN "True" ELSE "False"]
    /\ pc' = [pc EXCEPT ![t] = IF pc[t] = "imported" THEN "called" ELSE pc[t]]
    /\ staleCall' = (staleCall \/ file # fileAtLoad)
    /\ UNCHANGED << file, dirWritable, cfgModule, importLock, SETTINGS, json_settings,
                    settings, exc, printed, exitStatus, reported, writes,
                    validations, before, envChanges, edits, fileAtLoad >>

\* def load_settings() -> bool: return SETTINGS != {}
load_settings(t) ==
    /\ pc[t] \in (IF t = Main THEN {"imported", "proceed"} ELSE {"imported", "called"})
    /\ calls[t] < MaxCalls
    /\ calls' = [calls EXCEPT ![t] = @ + 1]
    /\ outcome' = [outcome EXCEPT ![t] = IF SETTINGS # EmptyDict THEN "True" ELSE "False"]
    /\ pc' = [pc EXCEPT ![t] = IF pc[t] = "imported" THEN "called" ELSE pc[t]]
    /\ staleCall' = (staleCall \/ file # fileAtLoad)
    /\ UNCHANGED << file, dirWritable, cfgModule, importLock, SETTINGS, json_settings,
                    settings, exc, printed, exitStatus, reported, reads, writes,
                    validations, before, envChanges, edits, fileAtLoad >>

\* ------------------------------------------------------- the entry point
\* The status sys.exit() ends the process with when called without argument.
SysExitStatus == 0

\* if load_settings(): print("Successfully loaded settings.")
\* else: print("Failed to load settings."); sys.exit()
EntryPoint ==
    /\ pc[Main] = "called"
    /\ IF outcome[Main] = "True"
       THEN /\ printed' = printed \cup {"Successfully loaded settings."}
            /\ pc' = [pc EXCEPT ![Main] = "proceed"]
            /\ UNCHANGED exitStatus
       ELSE /\ printed' = printed \cup {"Failed to load settings."}
            /\ pc' = [pc EXCEPT ![Main] = "exited"]
            /\ exitStatus' = SysExitStatus
    /\ UNCHANGED << file, dirWritable, cfgModule, importLock, SETTINGS, json_settings,
                    settings, exc, outcome, calls, reported, reads, writes,
                    validations, before, envChanges, edits, fileAtLoad, staleCall >>

\* ------------------------------------------------------ the environment
\* Objects a settings file may hold: the defaults, one without "padding" and
\* with an unknown key, one with a mistyped value, one with an empty file name
\* and a negative width.
SampleDocs ==
    { DEFAULT_SETTINGS,
      SubSeq(DEFAULT_SETTINGS, 1, 5) \o << Pair("theme", StrV("")) >>,
      [DEFAULT_SETTINGS EXCEPT ![3] = Pair("font_size", StrV("question.csv"))],
      [DEFAULT_SETTINGS EXCEPT ![1] = Pair("file_name", StrV("")),
                               ![4] = Pair("width", IntV(-1))] }

\* The states of the file the environment chooses from.
EnvFiles == {NoFile, Unreadable, Malformed, NonMapping} \cup {Mapping(d) : d \in SampleDocs}

\* Somebody edits, replaces, creates or deletes the file while no load runs.
EnvChange ==
    /\ importLock = 0
    /\ envChanges < MaxEnvChanges
    /\ envChanges' = envChanges + 1
    /\ \E f \in EnvFiles \ {file} : file' = f
    /\ UNCHANGED << dirWritable, json_settings, settings, exc, pc, reported, reads,
                    writes, validations, before, edits, moduleVars >>

\* Keys and values the edits of the object draw from.
ExtraKeys == {"theme", "title"}
EditKeys == Keys(DEFAULT_SETTINGS) \cup ExtraKeys
EditValues == {StrV(""), StrV("question.csv"), IntV(-1), IntV(8), BoolV(1), FloatV(1), NullV}

Reverse(seq) == [i \in 1..Len(seq) |-> seq[Len(seq) + 1 - i]]

\* The object without the pair of key k.
Without(doc, k) ==
    LET F[i \in 0..Len(doc)] ==
            IF i = 0 THEN <<>>
            ELSE IF doc[i].key = k THEN F[i - 1] ELSE Append(F[i - 1], doc[i])
    IN  F[Len(doc)]

\* The object with the value of key k replaced, in place.
WithValue(doc, k, v) ==
    [i \in 1..Len(doc) |-> IF doc[i].key = k THEN Pair(k, v) ELSE doc[i]]

EditGuard ==
    /\ pc[Main] = "script"
    /\ file.kind = "mapping"
    /\ edits < MaxEdits
    /\ edits' = edits + 1
    /\ UNCHANGED << dirWritable, json_settings, settings, exc, pc, reported, reads,
                    writes, validations, before, envChanges, moduleVars >>

\* The file is saved with another value under one of its keys.
EditSetValue ==
    /\ EditGuard
    /\ \E k \in Keys(file.doc), v \in EditValues :
          /\ Get(file.doc, k) # v
          /\ file' = Mapping(WithValue(file.doc, k, v))

\* The file is saved without one of its keys.
EditRemoveKey ==
    /\ EditGuard
    /\ \E k \in Keys(file.doc) : file' = Mapping(Without(file.doc, k))

\* The object with key k renamed to k2, in place.
Renamed(doc, k, k2) ==
    [i \in 1..Len(doc) |-> IF doc[i].key = k THEN Pair(k2, doc[i].value) ELSE doc[i]]

\* The file is saved with one of its keys renamed.
EditRenameKey ==
    /\ EditGuard
    /\ \E k \in Keys(file.doc), k2 \in EditKeys \ Keys(file.doc) :
          file' = Mapping(Renamed(file.doc, k, k2))

\* The file is saved with one more key, at the end.
EditAddKey ==
    /\ EditGuard
    /\ \E k \in EditKeys \ Keys(file.doc), v \in EditValues :
          file' = Mapping(Append(file.doc, Pair(k, v)))

\* ------------------------------------------------------- specifications
InitCommon ==
    /\ dirWritable \in BOOLEAN
    /\ cfgModule = "unloaded"
    /\ importLock = 0
    /\ SETTINGS = Unset
    /\ json_settings = [t \in Callers |-> NoFile]
    /\ settings = [t \in Callers |-> Unset]
    /\ exc = [t \in Callers |-> ""]
    /\ outcome = [t \in Callers |-> "none"]
    /\ calls = [t \in Callers |-> 0]
    /\ printed = {}
    /\ exitStatus = -1
    /\ reported = NoReport
    /\ reads = 0
    /\ writes = 0
    /\ validations = 0
    /\ before = [t \in Callers |-> NoFile]
    /\ envChanges = 0
    /\ edits = 0
    /\ fileAtLoad = NoFile
    /\ staleCall = FALSE

\* The application: every caller imports exam_app.config and calls
\* load_settings(); the first caller is the entry point.
Init ==
    /\ file \in EnvFiles
    /\ pc = [t \in Callers |-> "start"]
    /\ InitCommon

Next ==
    \/ EnvChange
    \/ \E t \in Callers :
          \/ ImportConfig(t)
          \/ OpenAndLoad(t)
          \/ Validate(t)
          \/ WriteDefaults(t)
          \/ read_setting_file(t)
          \/ ImportFails(t)
          \/ load_settings(t)
    \/ EntryPoint

Spec == Init /\ [][Next]_vars

\* setting.py run as a script: one call of read_json_file, on a file that is
\* missing, unreadable, no JSON, no object, or an object obtained from the
\* defaults (in either order) by edits.
InitV ==
    /\ file \in {NoFile, Unreadable, Malformed, NonMapping,
                 Mapping(DEFAULT_SETTINGS), Mapping(Reverse(DEFAULT_SETTINGS))}
    /\ pc = [t \in Callers |-> IF t = Main THEN "script" ELSE "start"]
    /\ InitCommon

NextV ==
    \/ EditSetValue
    \/ EditRemoveKey
    \/ EditAddKey
    \/ EditRenameKey
    \/ RunSettingScript(Main)
    \/ OpenAndLoad(Main)
    \/ Validate(Main)
    \/ WriteDefaults(Main)

SpecV == InitV /\ [][NextV]_vars

\* ----------------------------------------------------------------- claims
\* The schema as the specification states it.
SchemaKeys == {"file_name", "font_name", "font_size", "width", "height", "padding"}

ExpectedType(k) == IF k \in {"file_name", "font_name"} THEN "str" ELSE "int"

CanonicalDefaults ==
    << Pair("file_name", StrV("question.csv")), Pair("font_name", StrV("")),
       Pair("font_size", IntV(18)), Pair("width", IntV(640)),
       Pair("height", IntV(480)), Pair("padding", IntV(8)) >>

\* The range constraints of a Configuration.
ValueValid(doc) ==
    /\ Get(doc, "file_name").s # ""
    /\ \A k \in {"font_size", "width", "height", "padding"} : Get(doc, k).n >= 0

\* The positions of an object whose value has not the type the schema expects.
Mistyped(doc) == {i \in 1..Len(doc) : doc[i].value.type # ExpectedType(doc[i].key)}

\* C1: whenever the loader returns a configuration, that configuration has a
\* non-empty file_name and non-negative font_size, width, height and padding;
\* an object with an empty file_name or a negative integer yields no
\* configuration.
C1_ReturnedConfigurationIsValid ==
    \A t \in Callers :
        (pc[t] = "ret" /\ settings[t].tag = "dict") => ValueValid(settings[t].doc)

\* C2: a load never ends with an unhandled failure, whatever the state of the
\* file: every call returns a configuration or Absent.
C2_NoUnhandledFailure ==
    \A t \in Callers : pc[t] \notin {"exc", "raised"}

C4_LoadedIsTerminal ==
    [][cfgModule = "loaded" =>
          /\ cfgModule' = "loaded"
          /\ SETTINGS' = SETTINGS
          /\ reads' = reads
          /\ writes' = writes
          /\ validations' = validations
          /\ envChanges' = envChanges => file' = file
          /\ \A t, u \in Callers :
                (outcome'[t] # "none" /\ outcome[u] # "none") => outcome'[t] = outcome[u]]_vars

C4_Witness ==
    /\ cfgModule = "loaded"
    /\ staleCall
    /\ \E t \in Callers : calls[t] >= 2

\* C5: with two callers loading concurrently, the file is read at most once,
\* the schema comparison runs at most once, the defaults are written at most
\* once, and all callers get the same outcome.
C5_AtMostOnePhysicalLoad ==
    /\ reads <= 1
    /\ validations <= 1
    /\ writes <= 1
    /\ \A t, u \in Callers :
          (outcome[t] # "none" /\ outcome[u] # "none") => outcome[t] = outcome[u]

\* C6: when the configuration is Absent the entry point prints the failure
\* indicator and the process exits with a non-zero status instead of
\* proceeding; the success indicator is printed only for a configuration.
C6_AbsentAbortsStartup ==
    /\ (pc[Main] \in {"proceed", "exited"} /\ ~Truthy(SETTINGS))
          => /\ pc[Main] = "exited"
             /\ "Failed to load settings." \in printed
             /\ exitStatus \notin {-1, 0}
    /\ "Successfully loaded settings." \in printed => Truthy(SETTINGS)

\* C7: a parsed object that lacks a schema key yields Absent and a
\* RequiredKeysError carrying exactly the schema keys the object lacks, also
\* when it has unknown keys or mistyped values.
C7_MissingKeysReported ==
    \A t \in Callers :
        (/\ pc[t] = "ret"
         /\ before[t].kind = "mapping"
         /\ SchemaKeys \ Keys(before[t].doc) # {})
        => /\ settings[t] = None
           /\ reported.kind = "RequiredKeysError"
           /\ reported.keys = SchemaKeys \ Keys(before[t].doc)

C7_Witness ==
    \E t \in Callers :
        /\ pc[t] = "ret"
        /\ before[t].kind = "mapping"
        /\ SchemaKeys \ Keys(before[t].doc) # {}
        /\ Keys(before[t].doc) \ SchemaKeys # {}
        /\ \E i \in Mistyped(before[t].doc) : before[t].doc[i].key \in SchemaKeys
        /\ reported.kind = "RequiredKeysError"

\* C8: a parsed object with all six schema keys and at least one unknown key
\* yields Absent and an UnwantedKeysError carrying exactly the unknown keys,
\* whatever the types of the values.
C8_UnwantedKeysReported ==
    \A t \in Callers :
        (/\ pc[t] = "ret"
         /\ before[t].kind = "mapping"
         /\ SchemaKeys \subseteq Keys(before[t].doc)
         /\ Keys(before[t].doc) \ SchemaKeys # {})
        => /\ settings[t] = None
           /\ reported.kind = "UnwantedKeysError"
           /\ reported.keys = Keys(before[t].doc) \ SchemaKeys

C8_Witness ==
    \E t \in Callers :
        /\ pc[t] = "ret"
        /\ before[t].kind = "mapping"
        /\ SchemaKeys \subseteq Keys(before[t].doc)
        /\ Keys(before[t].doc) \ SchemaKeys # {}
        /\ \E i \in Mistyped(before[t].doc) : before[t].doc[i].key \in SchemaKeys
        /\ reported.kind = "UnwantedKeysError"

\* C9: a parsed object with exactly the six schema keys is returned if and
\* only if every value has exactly the type of the default value (a bool or a
\* float is no int); otherwise the load yields Absent and the type error names
\* the first mistyped key in document order, its type and the expected type.
C9_TypesMatchExactly ==
    \A t \in Callers :
        (/\ pc[t] = "ret"
         /\ before[t].kind = "mapping"
         /\ Keys(before[t].doc) = SchemaKeys)
        => LET doc == before[t].doc
           IN  IF Mistyped(doc) = {}
               THEN settings[t] = Dict(doc) /\ reported = NoReport
               ELSE /\ settings[t] = None
                    /\ reported.kind = "InvalidValueTypeError"
                    /\ \E i \in Mistyped(doc) :
                          /\ \A j \in Mistyped(doc) : i <= j
                          /\ reported.key = doc[i].key
                          /\ reported.value_type = doc[i].value.type
                          /\ reported.default_type = ExpectedType(doc[i].key)

C9_Witness ==
    \E t \in Callers :
        /\ pc[t] = "ret"
        /\ before[t].kind = "mapping"
        /\ Keys(before[t].doc) = SchemaKeys
        /\ before[t].doc[1].key = "padding"
        /\ Cardinality(Mistyped(before[t].doc)) = 2
        /\ \E i \in Mistyped(before[t].doc) : before[t].doc[i].value.type = "bool"
        /\ settings[t] = None

\* C10: a load that finds the file with text that is no JSON returns Absent
\* and leaves the file as it was; no step of the program changes a file that
\* exists.
C10_ExistingFileNeverOverwritten ==
    [][/\ \A t \in Callers :
             (pc'[t] = "ret" /\ before'[t].kind = "malformed")
                 => (settings'[t] = None /\ file' = before'[t])
       /\ (file.exists /\ envChanges' = envChanges /\ edits' = edits) => file' = file]_vars

C10_Witness ==
    \E t \in Callers :
        /\ pc[t] = "ret"
        /\ before[t].kind = "malformed"
        /\ settings[t] = None
        /\ reported = JSONDecodeReport
        /\ file = before[t]

====
